---- MODULE Spec2Model ----
(***************************************************************************)
(* ConcurrentQueue<T> of StackAndQueue/con_queue.hpp: a mutex-guarded      *)
(* singly linked FIFO queue with a condition variable, modelled at the     *)
(* granularity of its lock operations.  Nodes live in an explicit heap so  *)
(* that the raw rear_ pointer can dangle if the code lets it.              *)
(***************************************************************************)
EXTENDS Integers, Sequences, FiniteSets, TLC

\* ------------------------------------------------------------------ bounds
\* Elements a queue may hold when the threads start.
MaxInit == 2
\* Calls the free-running threads make in one behaviour, all together.
MaxOps == 2
\* Spurious wakeups of condition-variable waiters in one behaviour.
MaxSpurious == 1
\* Longest push sequence of the sequential scenario.
MaxSeq == 3

\* --------------------------------------------------------------- universe
Threads == {"t1", "t2", "t3"}
\* a and b are constructed before the threads start; c is built by a
\* copy or move constructor while they run.
Queues == {"a", "b", "c"}
NoThread == "none"
NoQueue == "none"
\* nullptr (and the default content of a caller's output variable).
Null == 0
\* The values pushed are 1, 2, ... in the order of the calls of push.
MaxVal == IF MaxSeq > 2 * MaxInit + MaxOps THEN MaxSeq ELSE 2 * MaxInit + MaxOps
Values == 1..MaxVal
\* Every instance holds at most MaxVal nodes, so allocation never fails.
NodeIds == 1..(Cardinality(Queues) * MaxVal)

VARIABLES
    front_,         \* [Queues -> NodeIds \cup {Null}]  owning pointer
    rear_,          \* [Queues -> NodeIds \cup {Null}]  raw pointer
    size_,          \* [Queues -> Nat]
    mutex_,         \* [Queues -> Threads \cup {NoThread}]  owner of the mutex
    not_empty_cv_,  \* [Queues -> SUBSET Threads]  threads suspended in wait
    data,           \* [NodeIds -> Values \cup {Null}]  Node::data
    next,           \* [NodeIds -> NodeIds \cup {Null}]  Node::next
    heap,           \* SUBSET NodeIds: the nodes that exist
    live,           \* [Queues -> BOOLEAN]: the instance is constructed
    pc,             \* [Threads -> STRING]: position in the current call
    op,             \* [Threads -> STRING]: the current (or last) call
    this,           \* [Threads -> Queues \cup {NoQueue}]
    other,          \* [Threads -> Queues \cup {NoQueue}]
    arg,            \* [Threads -> Values \cup {Null}]: push's parameter
    value,          \* [Threads -> Values \cup {Null}]: the caller's T& value
    ret,            \* [Threads -> {"none","void","true","false"}]: last return
    count,          \* [Threads -> Nat]: what the last size() returned
    first,          \* [Threads -> Queues \cup {NoQueue}]: std::lock's cursor
    expired,        \* [Threads -> BOOLEAN]: the timed pop's deadline passed
    current,        \* [Threads -> NodeIds \cup {Null}]: the copy loop's cursor
    snap,           \* [Threads -> Seq(Values)]: the source when the copy began
    script,         \* [Threads -> Seq(STRING)]: the calls a scripted thread makes
    budget,         \* calls the free-running threads may still make
    nextVal,        \* the next value a push() call is given
    pushlog,        \* [Queues -> Seq(Values)]: values in push order
    poplog,         \* [Queues -> Seq(Values)]: values in removal order
    before,         \* [Values -> SUBSET Values]: pushes done when v's began
    unlocked,       \* accesses made without the instance's lock
    waited,         \* threads whose current (or last) call waited on the cv
    rewaited,       \* threads that waited again after a wakeup, in that call
    spurious        \* spurious wakeups so far

qvars == <<front_, rear_, size_, data, next, heap>>
svars == <<mutex_, not_empty_cv_, live>>
tvars == <<pc, op, this, other, arg, value, ret, count, first, expired, current, snap,
           script, budget>>
gvars == <<nextVal, pushlog, poplog, before, unlocked, waited, rewaited, spurious>>
vars == <<qvars, svars, tvars, gvars>>

\* ------------------------------------------------------------------- heap
\* The node store as one value, so that the loops of the copy operations
\* can be computed by recursion.
Mem == [front |-> front_, rear |-> rear_, size |-> size_,
        data |-> data, next |-> next, heap |-> heap]

Store(m) ==
    \E w \in {m} :
        /\ front_' = w.front
        /\ rear_' = w.rear
        /\ size_' = w.size
        /\ data' = w.data
        /\ next' = w.next
        /\ heap' = w.heap

MinOf(S) == CHOOSE x \in S : \A y \in S : x <= y

\* std::make_unique<Node<T>>: a node that does not exist yet.
NewNode(m) == MinOf(NodeIds \ m.heap)

\* The nodes reached from n through next, n first (fuel stops a cycle).
RECURSIVE ChainFrom(_, _, _)
ChainFrom(m, n, fuel) ==
    IF n = Null \/ fuel = 0 THEN <<>>
    ELSE <<n>> \o ChainFrom(m, m.next[n], fuel - 1)

Chain(m, q) == ChainFrom(m, m.front[q], Cardinality(NodeIds) + 1)

RECURSIVE SeqMap(_, _)
SeqMap(f, s) == IF s = <<>> THEN <<>> ELSE <<f[Head(s)]>> \o SeqMap(f, Tail(s))

\* The element sequence of q, front to rear.
Contents(m, q) == SeqMap(m.data, Chain(m, q))

Range(s) == {s[i] : i \in DOMAIN s}

\* ~unique_ptr<Node>: the node n and every node it owns through next.
Destroy(m, n) ==
    LET dead == Range(ChainFrom(m, n, Cardinality(NodeIds) + 1)) \cap m.heap
    IN [m EXCEPT !.heap = @ \ dead,
                 !.data = [x \in NodeIds |-> IF x \in dead THEN Null ELSE @[x]],
                 !.next = [x \in NodeIds |-> IF x \in dead THEN Null ELSE @[x]]]

\* empty_unsafe()
empty_unsafe(m, q) == m.front[q] = Null

\* PushLink with the node linked in at the front (a stack's push).
PushLinkLifo(m, q, v) ==
    LET n == NewNode(m)
        m1 == [m EXCEPT !.heap = @ \cup {n}, !.data[n] = v, !.next[n] = m.front[q]]
    IN IF m.front[q] = Null
       THEN [m1 EXCEPT !.front[q] = n, !.rear[q] = n]
       ELSE [m1 EXCEPT !.front[q] = n]

\* PushLink that always takes the branch of the empty queue.
PushLinkDrop(m, q, v) ==
    LET n == NewNode(m)
        m1 == [m EXCEPT !.heap = @ \cup {n}, !.data[n] = v, !.next[n] = Null]
    IN [m1 EXCEPT !.front[q] = n, !.rear[q] = n]

\* push_unsafe up to the size update: the new node is linked behind rear_,
\* or becomes front_ when the queue is empty.
PushLink(m, q, v) ==
    LET n == NewNode(m)
        m1 == [m EXCEPT !.heap = @ \cup {n}, !.data[n] = v, !.next[n] = Null]
    IN IF m.front[q] = Null
       THEN [m1 EXCEPT !.front[q] = n, !.rear[q] = n]
       ELSE [m1 EXCEPT !.next[m.rear[q]] = n, !.rear[q] = n]

\* size_++
SizeInc(m, q) == [m EXCEPT !.size[q] = @ + 1]

\* push_unsafe(value)
push_unsafe(m, q, v) == SizeInc(PushLink(m, q, v), q)

\* Unlink without "front_ = std::move(front_->next);".
UnlinkNoAdvance(m, q) == m

\* Unlink without "if (front_.get() == rear_) { rear_ = nullptr; }".
UnlinkKeepRear(m, q) ==
    LET f == m.front[q]
        m1 == [m EXCEPT !.front[q] = m.next[f], !.next[f] = Null]
    IN Destroy(m1, f)

\* The removal of try_pop, pop and timed pop up to the size update (the
\* value has been moved out): rear_ is reset when the only node goes, front_
\* takes over the next node and the old front node is destroyed.
Unlink(m, q) ==
    LET f == m.front[q]
        m1 == [m EXCEPT !.rear[q] = IF f = m.rear[q] THEN Null ELSE @,
                        !.front[q] = m.next[f],
                        !.next[f] = Null]
    IN Destroy(m1, f)

\* size_--
SizeDec(m, q) == [m EXCEPT !.size[q] = @ - 1]

\* Clear that leaves the destination's chain in place.
ClearSkipped(m, q) == m

\* The body of copy assignment: front_.reset(), rear_ = nullptr, size_ = 0.
Clear(m, q) ==
    LET m1 == Destroy(m, m.front[q])
    IN [m1 EXCEPT !.front[q] = Null, !.rear[q] = Null, !.size[q] = 0]

\* The values vs pushed onto q one after the other.
RECURSIVE CopyLoop(_, _, _)
CopyLoop(m, q, vs) ==
    IF vs = <<>> THEN m
    ELSE CHOOSE r \in {CopyLoop(w, q, Tail(vs)) :
                          w \in {push_unsafe(m, q, Head(vs))}} : TRUE

\* MoveBody without "other.rear_ = nullptr; other.size_ = 0;".
MoveBodyKeepSource(m, q, o) ==
    LET m1 == Destroy(m, m.front[q])
    IN [m1 EXCEPT !.front[q] = m.front[o], !.front[o] = Null,
                  !.rear[q] = m.rear[o], !.size[q] = m.size[o]]

\* MoveBody as a swap of the two instances' front_, rear_ and size_.
MoveBodySwap(m, q, o) ==
    [m EXCEPT !.front[q] = m.front[o], !.front[o] = m.front[q],
              !.rear[q] = m.rear[o], !.rear[o] = m.rear[q],
              !.size[q] = m.size[o], !.size[o] = m.size[q]]

\* The body of move assignment and of the move constructor: front_ takes
\* the source's chain (destroying its own), rear_ and size_ are copied and
\* the source's are reset.
MoveBody(m, q, o) ==
    LET m1 == Destroy(m, m.front[q])
    IN [m1 EXCEPT !.front[q] = m.front[o], !.front[o] = Null,
                  !.rear[q] = m.rear[o], !.size[q] = m.size[o],
                  !.rear[o] = Null, !.size[o] = 0]

\* ---------------------------------------------------------------- threads
Idle(t) == pc[t] = "idle"

\* The threads are interchangeable: the k-th thread to make its first free
\* call is ThreadOrder[k].
ThreadOrder == <<"t1", "t2", "t3">>

InOrder(t) ==
    \A i, j \in DOMAIN ThreadOrder :
        (i < j /\ ThreadOrder[j] = t) => op[ThreadOrder[i]] # "none"

\* The caller: a scripted thread makes the calls of its script in order, the
\* other threads make any call while the budget lasts.
CanCall(t, o) ==
    /\ Idle(t)
    /\ IF script[t] # <<>>
       THEN Head(script[t]) = o
       ELSE budget > 0 /\ InOrder(t)

Consume(t) ==
    IF script[t] # <<>>
    THEN script' = [script EXCEPT ![t] = Tail(@)] /\ UNCHANGED budget
    ELSE budget' = budget - 1 /\ UNCHANGED script

\* The call of operation o on q (with source queue oq and parameter a).
Call(t, o, p, q, oq, a) ==
    /\ CanCall(t, o)
    /\ pc' = [pc EXCEPT ![t] = p]
    /\ op' = [op EXCEPT ![t] = o]
    /\ this' = [this EXCEPT ![t] = q]
    /\ other' = [other EXCEPT ![t] = oq]
    /\ arg' = [arg EXCEPT ![t] = a]
    /\ Consume(t)
    /\ waited' = waited \ {t}
    /\ rewaited' = rewaited \ {t}
    /\ UNCHANGED <<value, ret, count, expired, current, snap>>

\* The return of the current call with result r; newpc also holds what the
\* call's last step did to other threads' positions.
ReturnPc(t, r, newpc) ==
    /\ pc' = [newpc EXCEPT ![t] = "idle"]
    /\ ret' = [ret EXCEPT ![t] = r]
    /\ this' = [this EXCEPT ![t] = NoQueue]
    /\ other' = [other EXCEPT ![t] = NoQueue]
    /\ arg' = [arg EXCEPT ![t] = Null]
    /\ first' = [first EXCEPT ![t] = NoQueue]
    /\ expired' = [expired EXCEPT ![t] = FALSE]
    /\ current' = [current EXCEPT ![t] = Null]
    /\ snap' = [snap EXCEPT ![t] = <<>>]
    /\ UNCHANGED <<op, script, budget>>

Return(t, r) == ReturnPc(t, r, pc)

\* A step inside the current call that changes only the position.
Goto(t, p) ==
    /\ pc' = [pc EXCEPT ![t] = p]
    /\ UNCHANGED <<op, this, other, arg, ret, count, first, expired, current, snap,
                   script, budget>>

\* std::lock_guard / std::unique_lock on mutex_: blocks while it is owned.
Acquire(t, from, to) ==
    /\ pc[t] = from
    /\ mutex_[this[t]] = NoThread
    /\ mutex_' = [mutex_ EXCEPT ![this[t]] = t]
    /\ Goto(t, to)
    /\ UNCHANGED <<qvars, not_empty_cv_, live, value, gvars>>

Release(t, q) == mutex_' = [mutex_ EXCEPT ![q] = NoThread]

\* The access of q's front_, rear_ or size_ by t, if t does not hold q's lock.
Access(t, q, tag) == IF mutex_[q] = t THEN {} ELSE {tag}

\* The values whose push has left its critical section.
Done ==
    UNION {Range(pushlog[q]) : q \in Queues}
        \ {arg[t] : t \in {u \in Threads : pc[u] = "push_size"}}

\* Where a thread woken from not_empty_cv_.wait goes: it reacquires the
\* mutex and evaluates the predicate again.
Relock(w) == IF op[w] = "pop" THEN "pop_lock" ELSE "tpop_lock"

\* ------------------------------------------------------------------- push
CallPush(t) ==
    /\ nextVal \in Values
    /\ \E q \in {x \in Queues : live[x]} : Call(t, "push", "push_lock", q, NoQueue, nextVal)
    /\ nextVal' = nextVal + 1
    /\ before' = [before EXCEPT ![nextVal] = Done]
    /\ UNCHANGED <<qvars, svars, first, pushlog, poplog, unlocked, spurious>>

PushLock(t) == Acquire(t, "push_lock", "push_cs")

\* push_unsafe: the node is linked in.
PushCs(t) ==
    /\ pc[t] = "push_cs"
    /\ Store(PushLink(Mem, this[t], arg[t]))
    /\ pushlog' = [pushlog EXCEPT ![this[t]] = Append(@, arg[t])]
    /\ unlocked' = unlocked \cup Access(t, this[t], <<"push", "this">>)
    /\ Goto(t, "push_size")
    /\ UNCHANGED <<svars, value, nextVal, poplog, before, waited, rewaited, spurious>>

\* push_unsafe: size_++, and the lock_guard's scope ends.
PushSize(t) ==
    /\ pc[t] = "push_size"
    /\ Store(SizeInc(Mem, this[t]))
    /\ Release(t, this[t])
    /\ unlocked' = unlocked \cup Access(t, this[t], <<"push", "this">>)
    /\ Goto(t, "push_notify")
    /\ UNCHANGED <<not_empty_cv_, live, value, nextVal, pushlog, poplog, before,
                   waited, rewaited, spurious>>

\* push without not_empty_cv_.notify_one().
PushNoNotify(t) ==
    /\ pc[t] = "push_notify"
    /\ Return(t, "void")
    /\ UNCHANGED <<qvars, svars, value, count, gvars>>

\* not_empty_cv_.notify_one(): one suspended thread, if any, is woken.
PushNotify(t) ==
    /\ pc[t] = "push_notify"
    /\ IF not_empty_cv_[this[t]] = {}
       THEN /\ Return(t, "void")
            /\ UNCHANGED not_empty_cv_
       ELSE \E w \in not_empty_cv_[this[t]] :
            /\ not_empty_cv_' = [not_empty_cv_ EXCEPT ![this[t]] = @ \ {w}]
            /\ ReturnPc(t, "void", [pc EXCEPT ![w] = Relock(w)])
    /\ UNCHANGED <<qvars, mutex_, live, value, count, gvars>>

\* ---------------------------------------------------------------- try_pop
CallTryPop(t) ==
    /\ \E q \in {x \in Queues : live[x]} : Call(t, "try_pop", "try_pop_lock", q, NoQueue, Null)
    /\ UNCHANGED <<qvars, svars, first, nextVal, pushlog, poplog, before, unlocked,
                   spurious>>

TryPopLock(t) == Acquire(t, "try_pop_lock", "try_pop_cs")

\* try_pop that resets the caller's value before it tests for emptiness.
TryPopCsReset(t) ==
    /\ pc[t] = "try_pop_cs"
    /\ unlocked' = unlocked \cup Access(t, this[t], <<"try_pop", "this">>)
    /\ IF empty_unsafe(Mem, this[t])
       THEN /\ Release(t, this[t])
            /\ Return(t, "false")
            /\ value' = [value EXCEPT ![t] = Null]
            /\ UNCHANGED <<qvars, count, poplog>>
       ELSE /\ value' = [value EXCEPT ![t] = data[front_[this[t]]]]
            /\ Store(Unlink(Mem, this[t]))
            /\ poplog' = [poplog EXCEPT ![this[t]] = Append(@, data[front_[this[t]]])]
            /\ Goto(t, "try_pop_size")
            /\ UNCHANGED mutex_
    /\ UNCHANGED <<not_empty_cv_, live, nextVal, pushlog, before, waited, rewaited, spurious>>

\* if (empty_unsafe()) return false; otherwise the front node is unlinked.
TryPopCs(t) ==
    /\ pc[t] = "try_pop_cs"
    /\ unlocked' = unlocked \cup Access(t, this[t], <<"try_pop", "this">>)
    /\ IF empty_unsafe(Mem, this[t])
       THEN /\ Release(t, this[t])
            /\ Return(t, "false")
            /\ UNCHANGED <<qvars, value, count, poplog>>
       ELSE /\ value' = [value EXCEPT ![t] = data[front_[this[t]]]]
            /\ Store(Unlink(Mem, this[t]))
            /\ poplog' = [poplog EXCEPT ![this[t]] = Append(@, data[front_[this[t]]])]
            /\ Goto(t, "try_pop_size")
            /\ UNCHANGED mutex_
    /\ UNCHANGED <<not_empty_cv_, live, nextVal, pushlog, before, waited, rewaited, spurious>>

\* size_--; return true.
TryPopSize(t) ==
    /\ pc[t] = "try_pop_size"
    /\ Store(SizeDec(Mem, this[t]))
    /\ Release(t, this[t])
    /\ unlocked' = unlocked \cup Access(t, this[t], <<"try_pop", "this">>)
    /\ Return(t, "true")
    /\ UNCHANGED <<not_empty_cv_, live, value, count, nextVal, pushlog, poplog,
                   before, waited, rewaited, spurious>>

\* -------------------------------------------------------------------- pop
CallPop(t) ==
    /\ \E q \in {x \in Queues : live[x]} : Call(t, "pop", "pop_lock", q, NoQueue, Null)
    /\ UNCHANGED <<qvars, svars, first, nextVal, pushlog, poplog, before, unlocked,
                   spurious>>

\* The unique_lock, and the mutex taken again after a wakeup.
PopLock(t) == Acquire(t, "pop_lock", "pop_pred")

\* pop whose wait suspends the thread without releasing the mutex.
PopPredHoldLock(t) ==
    /\ pc[t] = "pop_pred"
    /\ unlocked' = unlocked \cup Access(t, this[t], <<"pop", "this">>)
    /\ IF empty_unsafe(Mem, this[t])
       THEN /\ not_empty_cv_' = [not_empty_cv_ EXCEPT ![this[t]] = @ \cup {t}]
            /\ waited' = waited \cup {t}
            /\ rewaited' = IF t \in waited THEN rewaited \cup {t} ELSE rewaited
            /\ Goto(t, "pop_wait")
            /\ UNCHANGED <<qvars, value, poplog, mutex_>>
       ELSE /\ value' = [value EXCEPT ![t] = data[front_[this[t]]]]
            /\ Store(Unlink(Mem, this[t]))
            /\ poplog' = [poplog EXCEPT ![this[t]] = Append(@, data[front_[this[t]]])]
            /\ Goto(t, "pop_size")
            /\ UNCHANGED <<mutex_, not_empty_cv_, waited, rewaited>>
    /\ UNCHANGED <<live, nextVal, pushlog, before, spurious>>

\* pop with "if (empty) wait(lock);" instead of the predicate loop: after
\* its first wait the thread removes without testing again (on an empty
\* queue the removal is undefined; here it touches nothing).
PopPredOnce(t) ==
    /\ pc[t] = "pop_pred"
    /\ unlocked' = unlocked \cup Access(t, this[t], <<"pop", "this">>)
    /\ IF empty_unsafe(Mem, this[t]) /\ t \notin waited
       THEN /\ Release(t, this[t])
            /\ not_empty_cv_' = [not_empty_cv_ EXCEPT ![this[t]] = @ \cup {t}]
            /\ waited' = waited \cup {t}
            /\ Goto(t, "pop_wait")
            /\ UNCHANGED <<qvars, value, poplog, rewaited>>
       ELSE IF empty_unsafe(Mem, this[t])
       THEN /\ Goto(t, "pop_size")
            /\ UNCHANGED <<qvars, value, poplog, mutex_, not_empty_cv_, waited, rewaited>>
       ELSE /\ value' = [value EXCEPT ![t] = data[front_[this[t]]]]
            /\ Store(Unlink(Mem, this[t]))
            /\ poplog' = [poplog EXCEPT ![this[t]] = Append(@, data[front_[this[t]]])]
            /\ Goto(t, "pop_size")
            /\ UNCHANGED <<mutex_, not_empty_cv_, waited, rewaited>>
    /\ UNCHANGED <<live, nextVal, pushlog, before, spurious>>

\* not_empty_cv_.wait(lock, pred): while the queue is empty the thread
\* releases the mutex and is suspended; otherwise the front node is unlinked.
PopPred(t) ==
    /\ pc[t] = "pop_pred"
    /\ unlocked' = unlocked \cup Access(t, this[t], <<"pop", "this">>)
    /\ IF empty_unsafe(Mem, this[t])
       THEN /\ Release(t, this[t])
            /\ not_empty_cv_' = [not_empty_cv_ EXCEPT ![this[t]] = @ \cup {t}]
            /\ waited' = waited \cup {t}
            /\ rewaited' = IF t \in waited THEN rewaited \cup {t} ELSE rewaited
            /\ Goto(t, "pop_wait")
            /\ UNCHANGED <<qvars, value, poplog>>
       ELSE /\ value' = [value EXCEPT ![t] = data[front_[this[t]]]]
            /\ Store(Unlink(Mem, this[t]))
            /\ poplog' = [poplog EXCEPT ![this[t]] = Append(@, data[front_[this[t]]])]
            /\ Goto(t, "pop_size")
            /\ UNCHANGED <<mutex_, not_empty_cv_, waited, rewaited>>
    /\ UNCHANGED <<live, nextVal, pushlog, before, spurious>>

\* size_--, and the unique_lock's scope ends.
PopSize(t) ==
    /\ pc[t] = "pop_size"
    /\ Store(SizeDec(Mem, this[t]))
    /\ Release(t, this[t])
    /\ unlocked' = unlocked \cup Access(t, this[t], <<"pop", "this">>)
    /\ Return(t, "void")
    /\ UNCHANGED <<not_empty_cv_, live, value, count, nextVal, pushlog, poplog,
                   before, waited, rewaited, spurious>>

\* A wait may end without a notification.
SpuriousWakeup(t) ==
    /\ pc[t] \in {"pop_wait", "tpop_wait"}
    /\ spurious < MaxSpurious
    /\ spurious' = spurious + 1
    /\ not_empty_cv_' = [not_empty_cv_ EXCEPT ![this[t]] = @ \ {t}]
    /\ Goto(t, Relock(t))
    /\ UNCHANGED <<qvars, mutex_, live, value, nextVal, pushlog, poplog, before,
                   unlocked, waited, rewaited>>

\* -------------------------------------------------------------- timed pop
CallTimedPop(t) ==
    /\ \E q \in {x \in Queues : live[x]} : Call(t, "tpop", "tpop_lock", q, NoQueue, Null)
    /\ UNCHANGED <<qvars, svars, first, nextVal, pushlog, poplog, before, unlocked,
                   spurious>>

TimedPopLock(t) == Acquire(t, "tpop_lock", "tpop_pred")

\* wait_for that gives up on an empty queue without waiting for the deadline.
TimedPopPredNoWait(t) ==
    /\ pc[t] = "tpop_pred"
    /\ unlocked' = unlocked \cup Access(t, this[t], <<"tpop", "this">>)
    /\ IF ~empty_unsafe(Mem, this[t])
       THEN /\ value' = [value EXCEPT ![t] = data[front_[this[t]]]]
            /\ Store(Unlink(Mem, this[t]))
            /\ poplog' = [poplog EXCEPT ![this[t]] = Append(@, data[front_[this[t]]])]
            /\ Goto(t, "tpop_size")
            /\ UNCHANGED <<mutex_, not_empty_cv_, waited, rewaited>>
       ELSE /\ Release(t, this[t])
            /\ Return(t, "false")
            /\ UNCHANGED <<qvars, not_empty_cv_, value, count, poplog, waited, rewaited>>
    /\ UNCHANGED <<live, nextVal, pushlog, before, spurious>>

\* wait_for that reports a timeout once the deadline has passed without
\* evaluating the predicate a last time.
TimedPopPredDeadlineFirst(t) ==
    /\ pc[t] = "tpop_pred"
    /\ unlocked' = unlocked \cup Access(t, this[t], <<"tpop", "this">>)
    /\ IF expired[t]
       THEN /\ Release(t, this[t])
            /\ Return(t, "false")
            /\ UNCHANGED <<qvars, not_empty_cv_, value, count, poplog, waited, rewaited>>
       ELSE IF ~empty_unsafe(Mem, this[t])
       THEN /\ value' = [value EXCEPT ![t] = data[front_[this[t]]]]
            /\ Store(Unlink(Mem, this[t]))
            /\ poplog' = [poplog EXCEPT ![this[t]] = Append(@, data[front_[this[t]]])]
            /\ Goto(t, "tpop_size")
            /\ UNCHANGED <<mutex_, not_empty_cv_, waited, rewaited>>
       ELSE /\ Release(t, this[t])
            /\ not_empty_cv_' = [not_empty_cv_ EXCEPT ![this[t]] = @ \cup {t}]
            /\ waited' = waited \cup {t}
            /\ rewaited' = IF t \in waited THEN rewaited \cup {t} ELSE rewaited
            /\ Goto(t, "tpop_wait")
            /\ UNCHANGED <<qvars, value, poplog>>
    /\ UNCHANGED <<live, nextVal, pushlog, before, spurious>>

\* not_empty_cv_.wait_for(lock, timeout, pred): as wait, but once the
\* deadline has passed an empty queue ends the call with false.
TimedPopPred(t) ==
    /\ pc[t] = "tpop_pred"
    /\ unlocked' = unlocked \cup Access(t, this[t], <<"tpop", "this">>)
    /\ IF ~empty_unsafe(Mem, this[t])
       THEN /\ value' = [value EXCEPT ![t] = data[front_[this[t]]]]
            /\ Store(Unlink(Mem, this[t]))
            /\ poplog' = [poplog EXCEPT ![this[t]] = Append(@, data[front_[this[t]]])]
            /\ Goto(t, "tpop_size")
            /\ UNCHANGED <<mutex_, not_empty_cv_, waited, rewaited>>
       ELSE IF expired[t]
       THEN /\ Release(t, this[t])
            /\ Return(t, "false")
            /\ UNCHANGED <<qvars, not_empty_cv_, value, count, poplog, waited, rewaited>>
       ELSE /\ Release(t, this[t])
            /\ not_empty_cv_' = [not_empty_cv_ EXCEPT ![this[t]] = @ \cup {t}]
            /\ waited' = waited \cup {t}
            /\ rewaited' = IF t \in waited THEN rewaited \cup {t} ELSE rewaited
            /\ Goto(t, "tpop_wait")
            /\ UNCHANGED <<qvars, value, poplog>>
    /\ UNCHANGED <<live, nextVal, pushlog, before, spurious>>

\* size_--; return true.
TimedPopSize(t) ==
    /\ pc[t] = "tpop_size"
    /\ Store(SizeDec(Mem, this[t]))
    /\ Release(t, this[t])
    /\ unlocked' = unlocked \cup Access(t, this[t], <<"tpop", "this">>)
    /\ Return(t, "true")
    /\ UNCHANGED <<not_empty_cv_, live, value, count, nextVal, pushlog, poplog,
                   before, waited, rewaited, spurious>>

\* The deadline of a timed pop passes; a suspended thread is woken by it.
Timeout(t) ==
    /\ pc[t] \in {"tpop_lock", "tpop_pred", "tpop_wait"}
    /\ ~expired[t]
    /\ expired' = [expired EXCEPT ![t] = TRUE]
    /\ IF pc[t] = "tpop_wait"
       THEN /\ not_empty_cv_' = [not_empty_cv_ EXCEPT ![this[t]] = @ \ {t}]
            /\ pc' = [pc EXCEPT ![t] = "tpop_lock"]
       ELSE UNCHANGED <<not_empty_cv_, pc>>
    /\ UNCHANGED <<qvars, mutex_, live, op, this, other, arg, value, ret, count,
                   first, current, snap, script, budget, gvars>>

\* ------------------------------------------------- try_peek, size, empty
CallTryPeek(t) ==
    /\ \E q \in {x \in Queues : live[x]} : Call(t, "try_peek", "peek_lock", q, NoQueue, Null)
    /\ UNCHANGED <<qvars, svars, first, nextVal, pushlog, poplog, before, unlocked,
                   spurious>>

TryPeekLock(t) == Acquire(t, "peek_lock", "peek_cs")

\* try_peek with "value = std::move(front_->data)": the node keeps a
\* moved-from value.
TryPeekCsMove(t) ==
    /\ pc[t] = "peek_cs"
    /\ unlocked' = unlocked \cup Access(t, this[t], <<"try_peek", "this">>)
    /\ IF empty_unsafe(Mem, this[t])
       THEN /\ Return(t, "false")
            /\ UNCHANGED <<value, data>>
       ELSE /\ value' = [value EXCEPT ![t] = data[front_[this[t]]]]
            /\ data' = [data EXCEPT ![front_[this[t]]] = Null]
            /\ Return(t, "true")
    /\ Release(t, this[t])
    /\ UNCHANGED <<front_, rear_, size_, next, heap, not_empty_cv_, live, count,
                   nextVal, pushlog, poplog, before, waited, rewaited, spurious>>

\* if (empty_unsafe()) return false; value = front_->data; return true.
TryPeekCs(t) ==
    /\ pc[t] = "peek_cs"
    /\ unlocked' = unlocked \cup Access(t, this[t], <<"try_peek", "this">>)
    /\ IF empty_unsafe(Mem, this[t])
       THEN /\ Return(t, "false")
            /\ UNCHANGED value
       ELSE /\ value' = [value EXCEPT ![t] = data[front_[this[t]]]]
            /\ Return(t, "true")
    /\ Release(t, this[t])
    /\ UNCHANGED <<qvars, not_empty_cv_, live, count, nextVal, pushlog, poplog,
                   before, waited, rewaited, spurious>>

CallSize(t) ==
    /\ \E q \in {x \in Queues : live[x]} : Call(t, "size", "size_lock", q, NoQueue, Null)
    /\ UNCHANGED <<qvars, svars, first, nextVal, pushlog, poplog, before, unlocked,
                   spurious>>

\* size() without its lock_guard.
SizeNoLock(t) ==
    /\ pc[t] = "size_lock"
    /\ Goto(t, "size_cs")
    /\ UNCHANGED <<qvars, svars, value, gvars>>

SizeLock(t) == Acquire(t, "size_lock", "size_cs")

\* return size_.
SizeCs(t) ==
    /\ pc[t] = "size_cs"
    /\ unlocked' = unlocked \cup Access(t, this[t], <<"size", "this">>)
    /\ count' = [count EXCEPT ![t] = size_[this[t]]]
    /\ Return(t, "size")
    /\ Release(t, this[t])
    /\ UNCHANGED <<qvars, not_empty_cv_, live, value, nextVal, pushlog, poplog,
                   before, waited, rewaited, spurious>>

CallEmpty(t) ==
    /\ \E q \in {x \in Queues : live[x]} : Call(t, "empty", "empty_lock", q, NoQueue, Null)
    /\ UNCHANGED <<qvars, svars, first, nextVal, pushlog, poplog, before, unlocked,
                   spurious>>

EmptyLock(t) == Acquire(t, "empty_lock", "empty_cs")

\* return empty_unsafe().
EmptyCs(t) ==
    /\ pc[t] = "empty_cs"
    /\ unlocked' = unlocked \cup Access(t, this[t], <<"empty", "this">>)
    /\ Return(t, IF empty_unsafe(Mem, this[t]) THEN "true" ELSE "false")
    /\ Release(t, this[t])
    /\ UNCHANGED <<qvars, not_empty_cv_, live, value, count, nextVal, pushlog,
                   poplog, before, waited, rewaited, spurious>>

\* ------------------------------------------------------------- assignment
\* if (this != &other) fails: the call returns at once.
SelfAssign(t, o) ==
    /\ CanCall(t, o)
    /\ op' = [op EXCEPT ![t] = o]
    /\ ret' = [ret EXCEPT ![t] = "void"]
    /\ Consume(t)
    /\ waited' = waited \ {t}
    /\ rewaited' = rewaited \ {t}
    /\ UNCHANGED <<pc, this, other, arg, value, count, first, expired, current, snap>>

\* operator= without "if (this != &other)".
CallAssignNoSelfCheck(t, o) ==
    /\ \E q, oq \in {x \in Queues : live[x]} :
         /\ Call(t, o, "lk_first", q, oq, Null)
         /\ first' = [first EXCEPT ![t] = q]
    /\ UNCHANGED <<qvars, svars, nextVal, pushlog, poplog, before, unlocked, spurious>>

\* operator=: the call of copy (o = "copy_assign") or move assignment.
CallAssign(t, o) ==
    /\ \E q, oq \in {x \in Queues : live[x]} :
         IF q = oq
         THEN SelfAssign(t, o)
         ELSE /\ Call(t, o, "lk_first", q, oq, Null)
              /\ first' = [first EXCEPT ![t] = q]
    /\ UNCHANGED <<qvars, svars, nextVal, pushlog, poplog, before, unlocked, spurious>>

CallCopyAssign(t) == CallAssign(t, "copy_assign")

CallMoveAssign(t) == CallAssign(t, "move_assign")

\* The mutex std::lock holds or waits for, and the one it will try.
Second(t) == IF first[t] = this[t] THEN other[t] ELSE this[t]

\* std::lock(mutex_, other.mutex_): a blocking lock of one mutex ...
LockFirst(t) ==
    /\ pc[t] = "lk_first"
    /\ mutex_[first[t]] = NoThread
    /\ mutex_' = [mutex_ EXCEPT ![first[t]] = t]
    /\ Goto(t, "lk_try")
    /\ UNCHANGED <<qvars, not_empty_cv_, live, value, gvars>>

\* ... then try_lock of the other one, which succeeds ...
LockTry(t) ==
    /\ pc[t] = "lk_try"
    /\ mutex_[Second(t)] = NoThread
    /\ mutex_' = [mutex_ EXCEPT ![Second(t)] = t]
    /\ Goto(t, "assign_cs")
    /\ UNCHANGED <<qvars, not_empty_cv_, live, value, gvars>>

\* A blocking lock of the second mutex while the first is held: no step
\* until it is free (and then LockTry takes it).
LockTryBlock(t) ==
    /\ pc[t] = "lk_try"
    /\ FALSE
    /\ UNCHANGED vars

\* ... or fails ...
LockTryFail(t) ==
    /\ pc[t] = "lk_try"
    /\ mutex_[Second(t)] # NoThread
    /\ Goto(t, "lk_back")
    /\ UNCHANGED <<qvars, svars, value, gvars>>

\* ... and then the held mutex is released and the locking starts again
\* with a blocking lock of the mutex that could not be taken.
LockBackOff(t) ==
    /\ pc[t] = "lk_back"
    /\ mutex_' = [mutex_ EXCEPT ![first[t]] = NoThread]
    /\ pc' = [pc EXCEPT ![t] = "lk_first"]
    /\ first' = [first EXCEPT ![t] = Second(t)]
    /\ UNCHANGED <<qvars, not_empty_cv_, live, op, this, other, arg, value, ret,
                   count, expired, current, snap, script, budget, gvars>>

\* Copy assignment under both locks: the destination is cleared and the
\* walk starts at the source's front node (the loop is left at once when
\* there is none).
CopyAssignCs(t) ==
    /\ pc[t] = "assign_cs"
    /\ op[t] = "copy_assign"
    /\ \E m1 \in {Clear(Mem, this[t])} :
         /\ Store(m1)
         /\ current' = [current EXCEPT ![t] = m1.front[other[t]]]
         /\ pc' = [pc EXCEPT ![t] = IF m1.front[other[t]] = Null
                                    THEN "assign_unlock" ELSE "assign_loop"]
    /\ snap' = [snap EXCEPT ![t] = Contents(Mem, other[t])]
    /\ unlocked' = unlocked \cup Access(t, this[t], <<"copy_assign", "this">>)
                             \cup Access(t, other[t], <<"copy_assign", "other">>)
    /\ UNCHANGED <<op, this, other, arg, ret, count, first, expired, script, budget>>
    /\ UNCHANGED <<svars, value, nextVal, pushlog, poplog, before, waited, rewaited, spurious>>

\* CopyAssignLoop that shares the source's nodes instead of duplicating
\* them: front_ refers to the source's chain.
CopyAssignLoopShallow(t) ==
    /\ pc[t] = "assign_loop"
    /\ front_' = [front_ EXCEPT ![this[t]] = current[t]]
    /\ rear_' = [rear_ EXCEPT ![this[t]] = rear_[other[t]]]
    /\ size_' = [size_ EXCEPT ![this[t]] = size_[other[t]]]
    /\ current' = [current EXCEPT ![t] = Null]
    /\ pc' = [pc EXCEPT ![t] = "assign_unlock"]
    /\ unlocked' = unlocked \cup Access(t, this[t], <<"copy_assign", "this">>)
                             \cup Access(t, other[t], <<"copy_assign", "other">>)
    /\ UNCHANGED <<op, this, other, arg, ret, count, first, expired, snap, script,
                   budget>>
    /\ UNCHANGED <<data, next, heap, svars, value, nextVal, pushlog, poplog, before,
                   waited, rewaited, spurious>>

\* One turn of copy assignment's loop: push_unsafe(current->data), then
\* current = current->next.get(); the loop is left after the last node.
CopyAssignLoop(t) ==
    /\ pc[t] = "assign_loop"
    /\ \E m1 \in {push_unsafe(Mem, this[t], data[current[t]])} :
         /\ Store(m1)
         /\ current' = [current EXCEPT ![t] = m1.next[current[t]]]
         /\ pc' = [pc EXCEPT ![t] = IF m1.next[current[t]] = Null
                                    THEN "assign_unlock" ELSE "assign_loop"]
    /\ unlocked' = unlocked \cup Access(t, this[t], <<"copy_assign", "this">>)
                             \cup Access(t, other[t], <<"copy_assign", "other">>)
    /\ UNCHANGED <<op, this, other, arg, ret, count, first, expired, snap, script,
                   budget>>
    /\ UNCHANGED <<svars, value, nextVal, pushlog, poplog, before, waited, rewaited, spurious>>

\* Move assignment under both locks.
MoveAssignCs(t) ==
    /\ pc[t] = "assign_cs"
    /\ op[t] = "move_assign"
    /\ Store(MoveBody(Mem, this[t], other[t]))
    /\ unlocked' = unlocked \cup Access(t, this[t], <<"move_assign", "this">>)
                             \cup Access(t, other[t], <<"move_assign", "other">>)
    /\ Goto(t, "assign_unlock")
    /\ UNCHANGED <<svars, value, nextVal, pushlog, poplog, before, waited, rewaited, spurious>>

\* The two adopting lock_guards go out of scope; return *this.
AssignUnlock(t) ==
    /\ pc[t] = "assign_unlock"
    /\ mutex_' = [mutex_ EXCEPT ![this[t]] = NoThread, ![other[t]] = NoThread]
    /\ Return(t, "void")
    /\ UNCHANGED <<qvars, not_empty_cv_, live, value, count, gvars>>

\* ----------------------------------------------------------- construction
\* The call of the copy (o = "copy_ctor") or move constructor for an
\* instance that does not exist yet and that no other thread is building.
CallCtor(t, o) ==
    /\ \E q \in {x \in Queues : ~live[x] /\ \A u \in Threads : this[u] # x} :
         \E oq \in {x \in Queues : live[x]} : Call(t, o, "ctor_lock", q, oq, Null)
    /\ UNCHANGED <<qvars, svars, first, nextVal, pushlog, poplog, before, unlocked,
                   spurious>>

CallCopyCtor(t) == CallCtor(t, "copy_ctor")

CallMoveCtor(t) == CallCtor(t, "move_ctor")

\* The copy and move constructors without the lock_guard on the source.
CtorNoLock(t) ==
    /\ pc[t] = "ctor_lock"
    /\ Goto(t, "ctor_cs")
    /\ UNCHANGED <<qvars, svars, value, gvars>>

\* std::lock_guard<std::mutex> lock(other.mutex_)
CtorLock(t) ==
    /\ pc[t] = "ctor_lock"
    /\ mutex_[other[t]] = NoThread
    /\ mutex_' = [mutex_ EXCEPT ![other[t]] = t]
    /\ Goto(t, "ctor_cs")
    /\ UNCHANGED <<qvars, not_empty_cv_, live, value, gvars>>

\* The copy constructor under the source's lock: the walk starts at the
\* source's front node (the loop is left at once when there is none).
CopyCtorCs(t) ==
    /\ pc[t] = "ctor_cs"
    /\ op[t] = "copy_ctor"
    /\ current' = [current EXCEPT ![t] = front_[other[t]]]
    /\ pc' = [pc EXCEPT ![t] = IF front_[other[t]] = Null
                               THEN "ctor_unlock" ELSE "ctor_loop"]
    /\ snap' = [snap EXCEPT ![t] = Contents(Mem, other[t])]
    /\ unlocked' = unlocked \cup Access(t, other[t], <<"copy_ctor", "other">>)
    /\ UNCHANGED <<op, this, other, arg, ret, count, first, expired, script, budget>>
    /\ UNCHANGED <<qvars, svars, value, nextVal, pushlog, poplog, before, waited, rewaited,
                   spurious>>

\* One turn of the copy constructor's loop: push(current->data), then
\* current = current->next.get(). The push takes and releases the new
\* instance's own mutex, which no other thread can hold, and notifies its
\* condition variable, on which no thread can wait.
CopyCtorLoop(t) ==
    /\ pc[t] = "ctor_loop"
    /\ mutex_[this[t]] = NoThread
    /\ \E m1 \in {push_unsafe(Mem, this[t], data[current[t]])} :
         /\ Store(m1)
         /\ current' = [current EXCEPT ![t] = m1.next[current[t]]]
         /\ pc' = [pc EXCEPT ![t] = IF m1.next[current[t]] = Null
                                    THEN "ctor_unlock" ELSE "ctor_loop"]
    /\ unlocked' = unlocked \cup Access(t, other[t], <<"copy_ctor", "other">>)
    /\ UNCHANGED <<op, this, other, arg, ret, count, first, expired, snap, script,
                   budget>>
    /\ UNCHANGED <<svars, value, nextVal, pushlog, poplog, before, waited, rewaited, spurious>>

\* The move constructor's body: only the source's mutex is held.
MoveCtorCs(t) ==
    /\ pc[t] = "ctor_cs"
    /\ op[t] = "move_ctor"
    /\ Store(MoveBody(Mem, this[t], other[t]))
    /\ unlocked' = unlocked \cup Access(t, this[t], <<"move_ctor", "this">>)
                             \cup Access(t, other[t], <<"move_ctor", "other">>)
    /\ Goto(t, "ctor_unlock")
    /\ UNCHANGED <<svars, value, nextVal, pushlog, poplog, before, waited, rewaited, spurious>>

\* The lock_guard on the source goes out of scope: the instance exists.
CtorUnlock(t) ==
    /\ pc[t] = "ctor_unlock"
    /\ mutex_' = [mutex_ EXCEPT ![other[t]] = NoThread]
    /\ live' = [live EXCEPT ![this[t]] = TRUE]
    /\ Return(t, "void")
    /\ UNCHANGED <<qvars, not_empty_cv_, value, count, gvars>>

\* --------------------------------------------------------- specifications
\* Default construction: front_ empty, rear_ = nullptr, size_ = 0.
EmptyMem ==
    [front |-> [q \in Queues |-> Null], rear |-> [q \in Queues |-> Null],
     size |-> [q \in Queues |-> 0], data |-> [n \in NodeIds |-> Null],
     next |-> [n \in NodeIds |-> Null], heap |-> {}]

Iota(i, j) == [k \in 1..(j - i + 1) |-> i + k - 1]

\* Queue a holding 1..ka and queue b holding ka+1..ka+kb, pushed one after
\* the other before the threads start; no call in progress.
InitState(ka, kb) ==
    /\ LET m == CopyLoop(CopyLoop(EmptyMem, "a", Iota(1, ka)), "b", Iota(ka + 1, ka + kb))
       IN /\ front_ = m.front
          /\ rear_ = m.rear
          /\ size_ = m.size
          /\ data = m.data
          /\ next = m.next
          /\ heap = m.heap
    /\ mutex_ = [q \in Queues |-> NoThread]
    /\ not_empty_cv_ = [q \in Queues |-> {}]
    /\ pc = [t \in Threads |-> "idle"]
    /\ op = [t \in Threads |-> "none"]
    /\ this = [t \in Threads |-> NoQueue]
    /\ other = [t \in Threads |-> NoQueue]
    /\ arg = [t \in Threads |-> Null]
    /\ value = [t \in Threads |-> Null]
    /\ ret = [t \in Threads |-> "none"]
    /\ count = [t \in Threads |-> 0]
    /\ first = [t \in Threads |-> NoQueue]
    /\ expired = [t \in Threads |-> FALSE]
    /\ current = [t \in Threads |-> Null]
    /\ snap = [t \in Threads |-> <<>>]
    /\ nextVal = ka + kb + 1
    /\ pushlog = [q \in Queues |->
                    IF q = "a" THEN Iota(1, ka)
                    ELSE IF q = "b" THEN Iota(ka + 1, ka + kb) ELSE <<>>]
    /\ poplog = [q \in Queues |-> <<>>]
    /\ before = [v \in Values |-> IF v <= ka + kb THEN 1..(v - 1) ELSE {}]
    /\ unlocked = {}
    /\ waited = {}
    /\ rewaited = {}
    /\ spurious = 0

\* The operations on one instance.
QueueStep(t) ==
    \/ CallPush(t) \/ PushLock(t) \/ PushCs(t) \/ PushSize(t) \/ PushNotify(t)
    \/ CallTryPop(t) \/ TryPopLock(t) \/ TryPopCs(t) \/ TryPopSize(t)
    \/ CallPop(t) \/ PopLock(t) \/ PopPred(t) \/ PopSize(t)
    \/ CallTimedPop(t) \/ TimedPopLock(t) \/ TimedPopPred(t) \/ TimedPopSize(t)
    \/ Timeout(t) \/ SpuriousWakeup(t)
    \/ CallTryPeek(t) \/ TryPeekLock(t) \/ TryPeekCs(t)
    \/ CallSize(t) \/ SizeLock(t) \/ SizeCs(t)
    \/ CallEmpty(t) \/ EmptyLock(t) \/ EmptyCs(t)

\* The operations between two instances.
CopyMoveStep(t) ==
    \/ CallCopyAssign(t) \/ CallMoveAssign(t)
    \/ LockFirst(t) \/ LockTry(t) \/ LockTryFail(t) \/ LockBackOff(t)
    \/ CopyAssignCs(t) \/ CopyAssignLoop(t) \/ MoveAssignCs(t) \/ AssignUnlock(t)
    \/ CallCopyCtor(t) \/ CallMoveCtor(t) \/ CtorLock(t)
    \/ CopyCtorCs(t) \/ CopyCtorLoop(t) \/ MoveCtorCs(t) \/ CtorUnlock(t)

\* Every operation, called by free-running threads on a and b (and on c
\* once it is constructed).
Init ==
    /\ \E ka, kb \in 0..MaxInit : InitState(ka, kb)
    /\ live = [q \in Queues |-> q # "c"]
    /\ script = [t \in Threads |-> <<>>]
    /\ budget = MaxOps

Next == \E t \in Threads : QueueStep(t) \/ CopyMoveStep(t)

Spec == Init /\ [][Next]_vars

\* The operations on one instance only: no copy, no move.
NextQ == \E t \in Threads : QueueStep(t)

SpecQ == Init /\ [][NextQ]_vars

\* The sequential scenario: one thread pushes n values onto the empty queue
\* a, removes n values with try_pop or pop, and calls try_pop once more.
SeqScripts ==
    UNION {{[i \in 1..(2 * n + 1) |->
                IF i <= n THEN "push" ELSE IF i = 2 * n + 1 THEN "try_pop" ELSE r[i - n]]
            : r \in [1..n -> {"try_pop", "pop"}]} : n \in 0..MaxSeq}

InitSeq ==
    /\ InitState(0, 0)
    /\ live = [q \in Queues |-> q = "a"]
    /\ script \in {[t \in Threads |-> IF t = "t1" THEN s ELSE <<>>] : s \in SeqScripts}
    /\ budget = 0

SeqStep(t) ==
    \/ CallPush(t) \/ PushLock(t) \/ PushCs(t) \/ PushSize(t) \/ PushNotify(t)
    \/ CallTryPop(t) \/ TryPopLock(t) \/ TryPopCs(t) \/ TryPopSize(t)
    \/ CallPop(t) \/ PopLock(t) \/ PopPred(t) \/ PopSize(t)

NextSeq == \E t \in Threads : SeqStep(t)

SpecSeq == InitSeq /\ [][NextSeq]_vars

\* The wakeup scenario: k consumers call pop() on the empty queue a and a
\* producer calls push k times.
InitWake ==
    /\ InitState(0, 0)
    /\ live = [q \in Queues |-> q = "a"]
    /\ script \in {[t1 |-> <<"pop">>, t2 |-> <<>>, t3 |-> <<"push">>],
                   [t1 |-> <<"pop">>, t2 |-> <<"pop">>, t3 |-> <<"push", "push">>]}
    /\ budget = 0

WakeStep(t) ==
    \/ CallPush(t) \/ PushLock(t) \/ PushCs(t) \/ PushSize(t) \/ PushNotify(t)
    \/ CallPop(t) \/ PopLock(t) \/ PopPred(t) \/ PopSize(t)

NextWake == \E t \in Threads : WakeStep(t) \/ SpuriousWakeup(t)

\* Every thread that can take a step of its call eventually takes one; a
\* spurious wakeup may or may not happen.
SpecWake == InitWake /\ [][NextWake]_vars /\ \A t \in Threads : WF_vars(WakeStep(t))

\* The assignment scenario: a holds elements, b is empty; t1 and t2 each
\* run one copy or move assignment between a and b, in any direction, while
\* t3 calls push, pop or size on either queue.
InitAssign ==
    /\ \E ka \in 0..MaxInit : InitState(ka, 0)
    /\ live = [q \in Queues |-> q # "c"]
    /\ \E s1, s2 \in {<<"copy_assign">>, <<"move_assign">>} :
         \E s3 \in {<<"push">>, <<"pop">>, <<"size">>} :
            script = [t1 |-> s1, t2 |-> s2, t3 |-> s3]
    /\ budget = 0

AssignStep(t) ==
    \/ CallCopyAssign(t) \/ CallMoveAssign(t)
    \/ LockFirst(t) \/ LockTry(t) \/ LockTryFail(t) \/ LockBackOff(t)
    \/ CopyAssignCs(t) \/ CopyAssignLoop(t) \/ MoveAssignCs(t) \/ AssignUnlock(t)
    \/ CallPush(t) \/ PushLock(t) \/ PushCs(t) \/ PushSize(t) \/ PushNotify(t)
    \/ CallPop(t) \/ PopLock(t) \/ PopPred(t) \/ PopSize(t)
    \/ CallSize(t) \/ SizeLock(t) \/ SizeCs(t)

NextAssign == \E t \in Threads : AssignStep(t)

\* Every thread that can take a step eventually takes one, and a try_lock
\* that finds the mutex free again and again eventually takes it.
SpecAssign ==
    /\ InitAssign /\ [][NextAssign]_vars
    /\ \A t \in Threads : WF_vars(AssignStep(t))
    /\ \A t \in {"t1", "t2"} : SF_vars(LockTry(t))

\* The stolen-element scenario: a and b are empty; t1 calls pop or timed
\* pop, t2 calls push, and t3 calls try_pop, pop or a move assignment, each
\* on either queue.
InitSteal ==
    /\ InitState(0, 0)
    /\ live = [q \in Queues |-> q # "c"]
    /\ \E s1 \in {<<"pop">>, <<"tpop">>} :
         \E s3 \in {<<"try_pop">>, <<"pop">>, <<"move_assign">>} :
            script = [t1 |-> s1, t2 |-> <<"push">>, t3 |-> s3]
    /\ budget = 0

StealStep(t) ==
    \/ CallPush(t) \/ PushLock(t) \/ PushCs(t) \/ PushSize(t) \/ PushNotify(t)
    \/ CallTryPop(t) \/ TryPopLock(t) \/ TryPopCs(t) \/ TryPopSize(t)
    \/ CallPop(t) \/ PopLock(t) \/ PopPred(t) \/ PopSize(t)
    \/ CallTimedPop(t) \/ TimedPopLock(t) \/ TimedPopPred(t) \/ TimedPopSize(t)
    \/ Timeout(t) \/ SpuriousWakeup(t)
    \/ CallMoveAssign(t) \/ LockFirst(t) \/ LockTry(t) \/ LockTryFail(t)
    \/ LockBackOff(t) \/ MoveAssignCs(t) \/ AssignUnlock(t)

NextSteal == \E t \in Threads : StealStep(t)

SpecSteal == InitSteal /\ [][NextSteal]_vars


\* The waiters scenario: t1 calls pop and t2 calls pop or timed pop on the
\* empty queue a, while t3 makes two calls of push, try_pop, try_peek, size
\* or empty on it.
NonBlocking == {"push", "try_pop", "try_peek", "size", "empty"}

InitLive ==
    /\ InitState(0, 0)
    /\ live = [q \in Queues |-> q = "a"]
    /\ \E s2 \in {<<"pop">>, <<"tpop">>} : \E o1, o2 \in NonBlocking :
            script = [t1 |-> <<"pop">>, t2 |-> s2, t3 |-> <<o1, o2>>]
    /\ budget = 0

LiveStep(t) ==
    \/ CallPush(t) \/ PushLock(t) \/ PushCs(t) \/ PushSize(t) \/ PushNotify(t)
    \/ CallTryPop(t) \/ TryPopLock(t) \/ TryPopCs(t) \/ TryPopSize(t)
    \/ CallPop(t) \/ PopLock(t) \/ PopPred(t) \/ PopSize(t)
    \/ CallTimedPop(t) \/ TimedPopLock(t) \/ TimedPopPred(t) \/ TimedPopSize(t)
    \/ CallTryPeek(t) \/ TryPeekLock(t) \/ TryPeekCs(t)
    \/ CallSize(t) \/ SizeLock(t) \/ SizeCs(t)
    \/ CallEmpty(t) \/ EmptyLock(t) \/ EmptyCs(t)

NextLive == \E t \in Threads : LiveStep(t) \/ Timeout(t) \/ SpuriousWakeup(t)

\* Every thread that can take a step of its call eventually takes one; the
\* deadline and spurious wakeups may or may not come.
SpecLive == InitLive /\ [][NextLive]_vars /\ \A t \in Threads : WF_vars(LiveStep(t))

\* ----------------------------------------------------------------- claims
NoDuplicates(s) == Cardinality(Range(s)) = Len(s)

Removals == {"try_pop", "pop", "tpop"}

\* C1. Sequential FIFO: after n pushes of 1..n onto the empty queue, each
\* completed before the next call, the k-th removal (try_pop or pop) returns
\* k, every try_pop among them reports a value, and the try_pop after the
\* n-th removal reports "no value".
C1_SequentialFifo ==
    LET t == "t1"
        removed == poplog["a"]
    IN /\ removed = Iota(1, Len(removed))
       /\ (Idle(t) /\ op[t] \in Removals /\ script[t] # <<>>) =>
              /\ value[t] = Len(removed)
              /\ ret[t] = IF op[t] = "try_pop" THEN "true" ELSE "void"
              /\ Len(removed) + Len(script[t]) - 1 = nextVal - 1
       /\ (Idle(t) /\ script[t] = <<>>) =>
              /\ ret[t] = "false"
              /\ Len(removed) = nextVal - 1

\* The scenario ran to its end with the longest push sequence.
C1_Witness ==
    /\ Idle("t1") /\ script["t1"] = <<>> /\ ret["t1"] = "false"
    /\ poplog["a"] = Iota(1, MaxSeq)
    /\ value["t1"] = MaxSeq

\* C2. Conservation: with no copy or move, whenever no thread holds q's
\* lock the values removed from q and the values still in q are together
\* exactly the values pushed onto q, no value is removed twice or also still
\* in q, and once q is empty every pushed value has been removed and size_
\* is 0.
C2_Conservation ==
    \A q \in Queues : mutex_[q] = NoThread =>
        /\ NoDuplicates(poplog[q])
        /\ NoDuplicates(Contents(Mem, q))
        /\ Range(poplog[q]) \cap Range(Contents(Mem, q)) = {}
        /\ Range(poplog[q]) \cup Range(Contents(Mem, q)) = Range(pushlog[q])
        /\ front_[q] = Null => (Len(poplog[q]) = Len(pushlog[q]) /\ size_[q] = 0)

\* Two values were removed by two different consumers and the queue is
\* empty again.
C2_Witness ==
    \E q \in Queues : \E t, u \in Threads :
        /\ t # u /\ Idle(t) /\ Idle(u)
        /\ op[t] \in Removals /\ op[u] \in Removals
        /\ value[t] # value[u] /\ {value[t], value[u]} \subseteq Range(poplog[q])
        /\ front_[q] = Null /\ Len(pushlog[q]) = 2 /\ Len(poplog[q]) = 2

\* C4. Concurrent FIFO order: if the push of A left its critical section
\* before push(B) was called and both were removed from the queue, A was
\* removed before B.
C4_FifoOrder ==
    \A q \in Queues : \A i, j \in DOMAIN poplog[q] :
        poplog[q][i] \in before[poplog[q][j]] => i < j

\* Two values pushed one after the other were removed by two different
\* threads.
C4_Witness ==
    \E q \in Queues : \E i, j \in DOMAIN poplog[q] : \E t, u \in Threads :
        /\ i < j
        /\ poplog[q][i] \in before[poplog[q][j]]
        /\ t # u /\ Idle(t) /\ Idle(u)
        /\ op[t] \in Removals /\ value[t] = poplog[q][i]
        /\ op[u] \in Removals /\ value[u] = poplog[q][j]

\* C5. Emptiness invariant: whenever no thread holds q's lock, front_ is
\* empty iff rear_ is nullptr iff size_ is 0.
C5_Emptiness ==
    \A q \in Queues : mutex_[q] = NoThread =>
        /\ (front_[q] = Null) <=> (rear_[q] = Null)
        /\ (front_[q] = Null) <=> (size_[q] = 0)

\* A move assignment emptied a queue that held elements, and the other
\* queue holds them now.
C5_Witness ==
    \E t \in Threads : \E q, o \in Queues :
        /\ Idle(t) /\ op[t] = "move_assign"
        /\ pushlog[o] # <<>> /\ poplog[o] = <<>>
        /\ front_[o] = Null /\ rear_[o] = Null /\ size_[o] = 0
        /\ Contents(Mem, q) = pushlog[o]
        /\ \A x \in Queues : mutex_[x] = NoThread

\* C6. Chain invariant: whenever no thread holds q's lock, the chain from
\* front_ has exactly size_ nodes, all of them existing, rear_ is its last
\* node (nullptr when the chain is empty), and no node is in two chains.
C6_Chain ==
    \A q \in Queues : mutex_[q] = NoThread =>
        LET c == Chain(Mem, q)
        IN /\ Len(c) = size_[q]
           /\ Range(c) \subseteq heap
           /\ rear_[q] = IF c = <<>> THEN Null ELSE c[Len(c)]
           /\ \A o \in Queues \ {q} :
                 mutex_[o] = NoThread => Range(c) \cap Range(Chain(Mem, o)) = {}

\* A copy assignment gave a queue two elements of its own.
C6_Witness ==
    \E t \in Threads : \E q, o \in Queues :
        /\ Idle(t) /\ op[t] = "copy_assign" /\ q # o
        /\ Len(Chain(Mem, q)) = 2 /\ Contents(Mem, q) = Contents(Mem, o)
        /\ pushlog[q] # Contents(Mem, q)
        /\ \A x \in Queues : mutex_[x] = NoThread

\* C7 as stated. Lock discipline: no operation reads or writes an
\* instance's front_, rear_ or size_ without holding that instance's lock.
C7_LockDiscipline == unlocked = {}

\* C7 as amended: the only accesses made without the instance's lock are
\* the move constructor's writes to the instance it constructs.
C7_LockDisciplineButMoveCtor == unlocked \subseteq {<<"move_ctor", "this">>}

\* A move constructor built c, and a later call on c has returned.
C7_Witness ==
    /\ unlocked = {<<"move_ctor", "this">>}
    /\ live["c"] /\ Len(Chain(Mem, "c")) >= 1
    /\ \E t \in Threads : Idle(t) /\ op[t] \in {"size", "try_peek", "push"} /\ ret[t] # "false"
    /\ \E t \in Threads : Idle(t) /\ op[t] = "move_ctor"

\* C9. Every path that makes a queue non-empty signals not_empty_cv_: a
\* thread stays suspended in pop or timed pop on a non-empty, unlocked queue
\* only while a notification of that queue is still to come or a woken
\* waiter has still to run.
C9_AppendSignals ==
    \A q \in Queues :
        (not_empty_cv_[q] # {} /\ front_[q] # Null /\ mutex_[q] = NoThread) =>
            \E t \in Threads :
                /\ this[t] = q
                /\ \/ pc[t] = "push_notify"
                   \/ pc[t] \in {"pop_lock", "tpop_lock"} /\ t \in waited

\* C10. try_pop on an empty queue returns false in the step that finds the
\* queue empty, without waiting on the condition variable, and leaves
\* front_, rear_, size_, the nodes and the caller's value as they were.
C10_TryPopEmpty ==
    [][\A t \in Threads :
        (pc[t] = "try_pop_cs" /\ front_[this[t]] = Null /\ pc'[t] # pc[t]) =>
            /\ pc'[t] = "idle" /\ ret'[t] = "false"
            /\ value'[t] = value[t]
            /\ UNCHANGED <<qvars, not_empty_cv_>>
            /\ t \notin waited']_vars

\* A try_pop on an empty queue returned false to a caller whose value
\* still holds what its earlier removal returned.
C10_Witness ==
    \E t \in Threads :
        /\ Idle(t) /\ op[t] = "try_pop" /\ ret[t] = "false"
        /\ value[t] # Null /\ value[t] \in UNION {Range(poplog[q]) : q \in Queues}
        /\ \A q \in Queues : size_[q] = 0

\* Every call of the wakeup scenario has returned, the consumers hold
\* distinct values, which are the pushed ones, and the queue is empty.
WakeDone ==
    LET consumers == {t \in Threads : op[t] = "pop"}
    IN /\ \A t \in Threads : Idle(t) /\ script[t] = <<>>
       /\ \A t, u \in consumers : t # u => value[t] # value[u]
       /\ {value[t] : t \in consumers} = Range(pushlog["a"])
       /\ Range(poplog["a"]) = Range(pushlog["a"])
       /\ front_["a"] = Null /\ size_["a"] = 0

\* C3. Blocking wakeup: with k consumers in pop() and k pushes, every
\* thread suspended in pop() eventually returns, and eventually all calls
\* have returned with each pushed value held by exactly one consumer.
C3_BlockingWakeup ==
    /\ \A t \in Threads : (pc[t] = "pop_wait") ~> Idle(t)
    /\ <>[]WakeDone

\* Both consumers were suspended in pop() before they returned.
C3_Witness == WakeDone /\ waited = {"t1", "t2"}

Assigns == {"copy_assign", "move_assign"}

\* C8. Cross-instance assignment: a thread waiting in std::lock for a mutex
\* holds no other mutex, and every copy or move assignment that was called
\* eventually returns.
C8_AssignCompletes ==
    /\ [](\A t \in Threads : pc[t] = "lk_first" => \A q \in Queues : mutex_[q] # t)
    /\ \A t \in Threads : (op[t] \in Assigns /\ ~Idle(t)) ~> Idle(t)

\* Two assignments in opposite directions each hold their first mutex and
\* are about to try the other's.
C8_Witness ==
    \E t, u \in Threads :
        /\ t # u /\ pc[t] = "lk_try" /\ pc[u] = "lk_try"
        /\ this[t] = other[u] /\ other[t] = this[u]
        /\ mutex_[first[t]] = t /\ mutex_[first[u]] = u

\* C11. Timeout without mutation: a timed pop returns false only after its
\* deadline has passed, on a queue that is empty at that moment and that it
\* leaves as it was (front_ empty, rear_ nullptr, size_ 0), with the
\* caller's value untouched; and once the deadline has passed, a timed pop
\* that finds the queue empty returns false.
C11_TimeoutNoMutation ==
    [][\A t \in Threads :
        /\ (op[t] = "tpop" /\ ~Idle(t) /\ pc'[t] = "idle" /\ ret'[t] = "false") =>
              /\ expired[t]
              /\ front_[this[t]] = Null
              /\ UNCHANGED qvars
              /\ rear_'[this[t]] = Null /\ size_'[this[t]] = 0
              /\ value'[t] = value[t]
        /\ (pc[t] = "tpop_pred" /\ pc'[t] # pc[t] /\ expired[t]
                /\ front_[this[t]] = Null) =>
              pc'[t] = "idle" /\ ret'[t] = "false"]_vars

\* A timed pop waited on an empty queue, its deadline passed and it
\* returned false; the queue is empty.
C11_Witness ==
    \E t \in Threads :
        /\ Idle(t) /\ op[t] = "tpop" /\ ret[t] = "false" /\ t \in waited
        /\ \A q \in Queues : front_[q] = Null /\ size_[q] = 0

\* The steps of push, try_pop, pop and timed pop that read or write the
\* queue.
Mutators == {"push_cs", "push_size", "try_pop_cs", "try_pop_size",
             "pop_pred", "pop_size", "tpop_pred", "tpop_size"}

\* C12. Copy independence: a step of push, try_pop, pop or timed pop on one
\* instance leaves the size and the element sequence of every other
\* instance unchanged, also when one is a copy of the other.
C12_CopyIndependence ==
    [][\A t \in Threads :
        (pc[t] \in Mutators /\ pc'[t] # pc[t]) =>
            \A o \in Queues \ {this[t]} :
                /\ Contents(Mem, o)' = Contents(Mem, o)
                /\ size_'[o] = size_[o]]_vars

\* b became a copy of a by copy assignment, then the front element of a
\* was removed: b still holds everything a held.
C12_Witness ==
    \E t, u \in Threads :
        /\ t # u /\ Idle(t) /\ op[t] = "copy_assign"
        /\ Idle(u) /\ op[u] \in {"try_pop", "pop"}
        /\ Len(pushlog["a"]) = 2 /\ poplog["a"] = <<pushlog["a"][1]>>
        /\ value[u] = pushlog["a"][1]
        /\ Contents(Mem, "a") = <<pushlog["a"][2]>> /\ size_["a"] = 1
        /\ Contents(Mem, "b") = pushlog["a"] /\ size_["b"] = 2

\* The thread is about to run the body of a move assignment or of a move
\* constructor / is about to return from one.
InMoveBody(t) ==
    \/ pc[t] = "assign_cs" /\ op[t] = "move_assign"
    \/ pc[t] = "ctor_cs" /\ op[t] = "move_ctor"

InMoveReturn(t) ==
    \/ pc[t] = "assign_unlock" /\ op[t] = "move_assign"
    \/ pc[t] = "ctor_unlock" /\ op[t] = "move_ctor"

\* C13. Move empties the source: the body of move assignment and of move
\* construction leaves the source with front_ empty, rear_ nullptr and
\* size_ 0, gives the destination exactly the source's element sequence and
\* size, and destroys the nodes the destination held; when the call
\* returns the source is still empty.
C13_MoveEmptiesSource ==
    [][\A t \in Threads :
        /\ (InMoveBody(t) /\ pc'[t] # pc[t]) =>
              /\ front_'[other[t]] = Null /\ rear_'[other[t]] = Null
              /\ size_'[other[t]] = 0
              /\ empty_unsafe(Mem, other[t])'
              /\ Contents(Mem, this[t])' = Contents(Mem, other[t])
              /\ size_'[this[t]] = size_[other[t]]
              /\ Range(Chain(Mem, this[t])) \cap heap' = {}
        /\ (InMoveReturn(t) /\ pc'[t] = "idle") =>
              /\ front_'[other[t]] = Null /\ rear_'[other[t]] = Null
              /\ size_'[other[t]] = 0
              /\ mutex_'[other[t]] = NoThread]_vars

\* A move assignment between two non-empty queues has returned: the
\* destination holds the source's elements, the source is empty and the
\* destination's old nodes are gone.
C13_Witness ==
    \E t \in Threads : \E q, o \in Queues :
        /\ Idle(t) /\ op[t] = "move_assign" /\ q # o
        /\ Len(pushlog[q]) = 2 /\ Len(pushlog[o]) = 2
        /\ Contents(Mem, q) = pushlog[o] /\ size_[q] = 2
        /\ front_[o] = Null /\ rear_[o] = Null /\ size_[o] = 0
        /\ Cardinality(heap) = 2
        /\ \A u \in Threads \ {t} : op[u] = "none"

CopyOps == {"copy_assign", "copy_ctor"}

\* C14. Copy result: copy assignment first destroys every node the
\* destination held and leaves the source alone; when a copy assignment or
\* a copy construction returns, the destination holds exactly the element
\* sequence the source held when the copy began, the source still holds
\* it, both have its length as size_, and they share no node.
C14_CopyResult ==
    [][\A t \in Threads : \E q \in {this[t]} : \E o \in {other[t]} :
        /\ (pc[t] = "assign_cs" /\ op[t] = "copy_assign" /\ pc'[t] # pc[t]) =>
              /\ Range(Chain(Mem, q)) \cap heap' = {}
              /\ Contents(Mem, o)' = Contents(Mem, o)
              /\ size_'[o] = size_[o]
        /\ (pc[t] \in {"assign_unlock", "ctor_unlock"} /\ op[t] \in CopyOps
                /\ pc'[t] = "idle") =>
              /\ Contents(Mem, q)' = snap[t]
              /\ Contents(Mem, o)' = snap[t]
              /\ size_'[q] = Len(snap[t])
              /\ size_'[o] = Len(snap[t])
              /\ Range(Chain(Mem, q))' \cap Range(Chain(Mem, o))' = {}]_vars

\* A copy assignment from a queue of two elements to a queue that held two
\* others has returned: both hold the source's elements, in four nodes.
C14_Witness ==
    \E t \in Threads : \E q, o \in Queues :
        /\ Idle(t) /\ op[t] = "copy_assign" /\ q # o
        /\ Len(pushlog[q]) = 2 /\ Len(pushlog[o]) = 2
        /\ Contents(Mem, q) = pushlog[o] /\ Contents(Mem, o) = pushlog[o]
        /\ size_[q] = 2 /\ size_[o] = 2
        /\ Cardinality(heap) = 4
        /\ \A u \in Threads \ {t} : op[u] = "none"

AssignPcs == {"lk_first", "lk_try", "lk_back", "assign_cs", "assign_loop",
              "assign_unlock"}

\* C15. Self-assignment: a copy or move assignment of an instance to itself
\* never enters std::lock or the body (only an assignment between two
\* different instances does), and the step in which a thread calls an
\* assignment and has returned at once leaves front_, rear_, size_, the
\* nodes, the mutexes and the waiters unchanged.
C15_SelfAssign ==
    /\ [](\A t \in Threads : pc[t] \in AssignPcs => this[t] # other[t])
    /\ [][\A t \in Threads :
            (Idle(t) /\ pc'[t] = "idle" /\ op'[t] \in Assigns
                /\ <<script[t], budget>>' # <<script[t], budget>>) =>
                /\ UNCHANGED <<qvars, mutex_, not_empty_cv_>>
                /\ ret'[t] = "void"]_vars

\* The only call made so far is a move assignment that has returned, and
\* a and b still hold their own, different elements: it was a self-assignment.
C15_Witness ==
    /\ budget = MaxOps - 1
    /\ Idle("t1") /\ op["t1"] = "move_assign" /\ ret["t1"] = "void"
    /\ \A u \in Threads \ {"t1"} : op[u] = "none"
    /\ \A q \in {"a", "b"} :
          /\ pushlog[q] # <<>> /\ Contents(Mem, q) = pushlog[q]
          /\ size_[q] = Len(pushlog[q]) /\ mutex_[q] = NoThread

\* C16. Peek is non-destructive: try_peek on a non-empty queue returns true
\* with the first element of the sequence in the caller's value, on an
\* empty queue it returns false and leaves the caller's value alone, and in
\* both cases front_, rear_, size_ and the nodes are unchanged; a removal
\* (try_pop, pop, timed pop) returns that same first element.
C16_PeekNonDestructive ==
    [][\A t \in Threads : \E q \in {this[t]} :
        /\ (pc[t] = "peek_cs" /\ pc'[t] # pc[t]) =>
              /\ UNCHANGED qvars
              /\ Contents(Mem, q)' = Contents(Mem, q)
              /\ pc'[t] = "idle"
              /\ IF Contents(Mem, q) # <<>>
                 THEN ret'[t] = "true" /\ value'[t] = Head(Contents(Mem, q))
                 ELSE ret'[t] = "false" /\ value'[t] = value[t]
        /\ (pc[t] \in {"try_pop_cs", "pop_pred", "tpop_pred"}
                /\ pc'[t] \in {"try_pop_size", "pop_size", "tpop_size"}) =>
              /\ value'[t] = Head(Contents(Mem, q))
              /\ Contents(Mem, q)' = Tail(Contents(Mem, q))]_vars

\* A thread peeked the front value of a queue and then removed that value
\* from it; no other call was made.
C16_Witness ==
    \E t, u \in Threads : \E q \in Queues :
        /\ t # u /\ Idle(t) /\ op[t] = "try_peek" /\ ret[t] = "true"
        /\ Idle(u) /\ op[u] \in {"try_pop", "pop"}
        /\ value[t] = value[u] /\ value[t] = pushlog[q][1]
        /\ poplog[q] = <<value[t]>>
        /\ budget = 0

\* C17. Spurious-wakeup and stolen-element immunity: pop and timed pop
\* unlink a node only while they hold the lock of a non-empty queue and
\* decrement only a positive size_; a pop that finds the queue empty, also
\* after a wakeup, releases the lock and waits (again) without touching the
\* queue, and so does a timed pop whose deadline has not passed.
C17_RecheckAfterWakeup ==
    [][\A t \in Threads : \E q \in {this[t]} :
        /\ (pc[t] \in {"pop_pred", "tpop_pred"}
                /\ pc'[t] \in {"pop_size", "tpop_size"}) =>
              /\ mutex_[q] = t
              /\ front_[q] # Null /\ front_[q] \in heap
        /\ (pc[t] \in {"pop_size", "tpop_size"} /\ pc'[t] # pc[t]) =>
              /\ mutex_[q] = t
              /\ size_[q] > 0
        /\ (pc[t] \in {"pop_pred", "tpop_pred"} /\ pc'[t] # pc[t]
                /\ front_[q] = Null /\ ~expired[t]) =>
              /\ pc'[t] \in {"pop_wait", "tpop_wait"}
              /\ t \in not_empty_cv_'[q]
              /\ mutex_'[q] = NoThread
              /\ UNCHANGED <<qvars, value, poplog>>]_vars

\* t1 was suspended in pop(), the push's notification woke it, another
\* consumer took the element first, and t1 is suspended again.
C17_Witness ==
    \E q \in Queues :
        /\ pc["t1"] \in {"pop_wait", "tpop_wait"} /\ this["t1"] = q
        /\ "t1" \in rewaited /\ spurious = 0 /\ ~expired["t1"]
        /\ Len(pushlog[q]) = 1 /\ front_[q] = Null
        /\ Idle("t2") /\ op["t2"] = "push"
        /\ Idle("t3") /\ op["t3"] \in {"try_pop", "move_assign"}

WaitPcs == {"pop_wait", "tpop_wait"}

\* C18. Waiters do not hold the lock: a thread suspended in pop or timed
\* pop owns no mutex, only pop and timed pop ever wait on the condition
\* variable, and every call of push, try_pop, try_peek, size and empty
\* eventually returns, whatever number of threads is suspended.
C18_WaitersReleaseLock ==
    /\ [](\A t \in Threads : pc[t] \in WaitPcs => \A q \in Queues : mutex_[q] # t)
    /\ [](\A q \in Queues : \A t \in not_empty_cv_[q] : op[t] \in {"pop", "tpop"})
    /\ \A t \in Threads : (op[t] \in NonBlocking /\ ~Idle(t)) ~> Idle(t)

\* Two threads are suspended on the empty queue while a third one holds
\* its lock inside try_pop, try_peek, size or empty.
C18_Witness ==
    /\ pc["t1"] \in WaitPcs /\ pc["t2"] \in WaitPcs
    /\ not_empty_cv_["a"] = {"t1", "t2"} /\ front_["a"] = Null
    /\ pc["t3"] \in {"try_pop_cs", "peek_cs", "size_cs", "empty_cs"}
    /\ mutex_["a"] = "t3"

IsPrefix(s, u) == Len(s) <= Len(u) /\ \A i \in DOMAIN s : s[i] = u[i]

\* The thread is inside (or has just finished) the loop of a copy.
InCopy(t) ==
    \/ pc[t] \in {"assign_loop", "assign_unlock"} /\ op[t] = "copy_assign"
    \/ pc[t] \in {"ctor_loop", "ctor_unlock"} /\ op[t] = "copy_ctor"

\* C19. Atomic snapshot on copy: from the first to the last turn of the
\* loop of a copy assignment or copy construction, whatever the other
\* threads do, the source holds the element sequence it held when the copy
\* began, the destination holds a prefix of that sequence, the cursor is at
\* the source's node that comes next, and after the loop the destination
\* holds all of it.
C19_AtomicSnapshot ==
    \A t \in Threads : InCopy(t) =>
        LET src == Contents(Mem, other[t])
            dst == Contents(Mem, this[t])
        IN /\ src = snap[t]
           /\ IsPrefix(dst, snap[t])
           /\ IF pc[t] \in {"assign_loop", "ctor_loop"}
              THEN /\ Len(dst) < Len(snap[t])
                   /\ current[t] = Chain(Mem, other[t])[Len(dst) + 1]
              ELSE dst = snap[t]

\* A copy of a queue of two elements has finished its loop while another
\* thread, which called push or a removal on the source, waits for the lock.
C19_Witness ==
    \E t, u \in Threads :
        /\ t # u /\ InCopy(t) /\ pc[t] \in {"assign_unlock", "ctor_unlock"}
        /\ Len(snap[t]) = 2 /\ Contents(Mem, this[t]) = snap[t]
        /\ this[u] = other[t]
        /\ pc[u] \in {"push_lock", "try_pop_lock", "pop_lock", "tpop_lock"}
        /\ mutex_[other[t]] = t

\* C20. Timed pop gives up only on an empty queue: a timed pop returns
\* false only from its predicate check, made under the lock on a queue that
\* is empty at that instant; a predicate check that finds an element
\* removes and returns it, also after the deadline has passed.
C20_GiveUpOnlyWhenEmpty ==
    [][\A t \in Threads : \E q \in {this[t]} :
        /\ (op[t] = "tpop" /\ ~Idle(t) /\ pc'[t] = "idle" /\ ret'[t] = "false") =>
              /\ pc[t] = "tpop_pred"
              /\ mutex_[q] = t
              /\ Contents(Mem, q) = <<>>
        /\ (pc[t] = "tpop_pred" /\ pc'[t] # pc[t] /\ Contents(Mem, q) # <<>>) =>
              /\ pc'[t] = "tpop_size"
              /\ value'[t] = Head(Contents(Mem, q))
              /\ poplog'[q] = Append(poplog[q], Head(Contents(Mem, q)))]_vars

\* A timed pop was suspended on an empty queue, an assignment installed an
\* element without a notification, the deadline passed, and the timed pop
\* has removed the element.
C20_Witness ==
    \E t, u \in Threads :
        /\ pc[t] = "tpop_size" /\ expired[t] /\ t \in waited /\ spurious = 0
        /\ pushlog[this[t]] = <<>> /\ value[t] # Null
        /\ poplog[this[t]] = <<value[t]>>
        /\ u # t /\ Idle(u) /\ op[u] \in Assigns

====
